---- MODULE Spec2Model ----
(***************************************************************************)
(* The Select component of source/components/Select/Select.tsx as a state  *)
(* machine: the React state {searchValue, selectValue,                     *)
(* selectValueForMultiplePanel, popupVisible, activeKey}, the props the     *)
(* handlers read, and one action per handler.  setState calls of one        *)
(* handler are batched: a handler reads the state it started with and the   *)
(* merged update is applied at its end.                                     *)
(***************************************************************************)
EXTENDS Integers, Sequences, FiniteSets, TLC

VARIABLES
  props,                        \* this.props (after a render also state.prevProps)
  searchValue,                  \* state.searchValue
  selectValue,                  \* state.selectValue            (SelectionSet)
  selectValueForMultiplePanel,  \* state.selectValueForMultiplePanel (PendingSelectionSet)
  popupVisible,                 \* state.popupVisible
  activeKey,                    \* state.activeKey
  thrown,                       \* a lifecycle method threw: the component is gone
  fired,                        \* the notifications the last handler fired, in order
  last,                         \* the last handler, its argument, and whether the
                                \* handler before it was the same with the same argument
  pre,                          \* the selectValue the last handler started from
  focusPending,                 \* a callback of focusEvent is scheduled and has not run
  call,                         \* the static function called last, with its arguments
  result,                       \* what it returned
  modal,                        \* the state of a ColumnFiltrateModal
  player,                       \* the state of an AudioPlayer
  audio                         \* the audio element the AudioPlayer renders

vars == <<props, searchValue, selectValue, selectValueForMultiplePanel,
          popupVisible, activeKey, thrown, fired, last, pre, focusPending, call, result,
          modal, player, audio>>

----------------------------------------------------------------------------
(* Bounds of the inputs *)

\* longest array handed in as the value prop
MaxValueLen == 2

\* most children at the top of a tree handed to a static function
MaxTreeLen == 3

\* JavaScript's undefined
Undefined == "undefined"

\* x is falsy (undefined or the empty string) in `x || y`
Falsy(x) == x = Undefined \/ x = ""

\* x || y
Or(x, y) == IF Falsy(x) THEN y ELSE x

----------------------------------------------------------------------------
(* The declarative children: Option and OptGroup elements *)

\* <Option value=.. title=.. disabled=..>label</Option>
OptionNode(value, label, title, disabled) ==
  [type |-> "option", value |-> value, children |-> <<label>>,
   title |-> title, disabled |-> disabled]

\* <OptGroup>..</OptGroup>
OptGroupNode(kids) ==
  [type |-> "group", value |-> Undefined, children |-> kids,
   title |-> Undefined, disabled |-> FALSE]

\* any other child (null, a string, another element)
OtherNode ==
  [type |-> "other", value |-> Undefined, children |-> <<>>,
   title |-> Undefined, disabled |-> FALSE]

\* the option trees the host renders: "c" is disabled in cat1; cat2 lists "b"
\* first, inside nested groups, and has "a" disabled and no "c"; cat3 has three
\* options to move over around the disabled "c"; cat0 has no option to select
ChildrenOf(name) ==
  CASE name = "cat1" ->
         << OptionNode("a", "A", "tA", FALSE),
            OptGroupNode(<< OptionNode("b", "B", Undefined, FALSE),
                            OptionNode("c", "C", "tC", TRUE) >>) >>
    [] name = "cat2" ->
         << OptGroupNode(<< OptGroupNode(<< OptionNode("b", "B", Undefined, FALSE) >>) >>),
            OtherNode,
            OptionNode("a", "A", "tA", TRUE),
            OptGroupNode(<< >>) >>
    [] name = "cat3" ->
         << OptionNode("a", "A", "tA", FALSE),
            OptGroupNode(<< OptionNode("b", "B", Undefined, FALSE),
                            OptionNode("c", "C", "tC", TRUE) >>),
            OptionNode("d", "D", Undefined, FALSE) >>
    [] name = "cat0" ->
         << OptGroupNode(<< OptionNode("c", "C", "tC", TRUE) >>) >>

\* the trees the host changes between while the component is mounted
ChildrenNames == {"cat1", "cat2"}

\* the trees of a host that keeps the one it mounted the component with
CatalogNames == {"cat3", "cat0"}

\* FilterAccepts with a predicate that is never asked
FilterAccepts_All(filter, child) == TRUE

\* the predicates handed to getOptionFromChildren as `filter`
FilterAccepts(filter, child) ==
  CASE filter = "none"        -> TRUE
    [] filter = "notDisabled" -> ~child.disabled

\* the {label, key, title} built for an Option child
SelectOptionOf(child) ==
  [key |-> child.value, label |-> child.children[1], title |-> child.title]

RECURSIVE getOptionFromChildren(_, _, _)
getOptionFromChildren(children, plainOptionList, filter) ==
  IF Len(children) = 0 THEN plainOptionList
  ELSE LET child == Head(children)
           list  == CASE child.type = "option" ->
                           IF FilterAccepts(filter, child)
                           THEN Append(plainOptionList, SelectOptionOf(child))
                           ELSE plainOptionList
                      [] child.type = "group" ->
                           getOptionFromChildren(child.children, plainOptionList, filter)
                      [] OTHER -> plainOptionList
       IN getOptionFromChildren(Tail(children), list, filter)

----------------------------------------------------------------------------
(* Small helpers for arrays *)

\* Array.prototype.findIndex on the key, 1-based; 0 stands for -1
RECURSIVE FindIndexFrom(_, _, _)
FindIndexFrom(list, key, i) ==
  IF i > Len(list) THEN 0
  ELSE IF list[i].key = key THEN i
  ELSE FindIndexFrom(list, key, i + 1)

\* FindIndex finding nothing
FindIndex_Misses(list, key) == 0

FindIndex(list, key) == FindIndexFrom(list, key, 1)

\* Array.prototype.find on the key, `|| {}`: a missing entry has no label, no title
FindOrEmpty(list, key) ==
  LET i == FindIndex(list, key)
  IN IF i = 0 THEN [key |-> Undefined, label |-> Undefined, title |-> Undefined]
     ELSE list[i]

\* list.slice(from, to) with JavaScript's 0-based, end-exclusive, negative-from-the-end indices
Slice(list, from, to) ==
  LET n  == Len(list)
      f  == IF from < 0 THEN (IF n + from < 0 THEN 0 ELSE n + from)
            ELSE (IF from > n THEN n ELSE from)
      t  == IF to < 0 THEN (IF n + to < 0 THEN 0 ELSE n + to)
            ELSE (IF to > n THEN n ELSE to)
  IN IF t <= f THEN <<>> ELSE SubSeq(list, f + 1, t)

\* list.filter(item => keep(item)) for "key is one of keys"
RECURSIVE FilterByKeys(_, _)
FilterByKeys(list, keys) ==
  IF Len(list) = 0 THEN <<>>
  ELSE IF Head(list).key \in keys
       THEN <<Head(list)>> \o FilterByKeys(Tail(list), keys)
       ELSE FilterByKeys(Tail(list), keys)

\* list.map(selected => selected.key)
KeysOf(list) == [i \in 1..Len(list) |-> list[i].key]

KeySet(list) == {list[i].key : i \in 1..Len(list)}

----------------------------------------------------------------------------
(* Value normalization *)

\* the {key, label, title} entry of selectValue
SelectValue(key, label, title) == [key |-> key, label |-> label, title |-> title]

\* a value prop: its Object.prototype.toString type and its content, an array's
\* elements or the one scalar / object
Value(type, v) == [type |-> type, v |-> v]

\* 'value' is not among the props at all
Absent == Value("absent", <<>>)

\* value.map(...) is called on something that has no map
getValueFromPropsThrows(value, labelInValue) ==
  ~labelInValue /\ value.type = "object"

getValueFromProps(value, labelInValue, children) ==
  LET optionList == getOptionFromChildren(children, <<>>, "none")
      fromObj(obj) ==
        LET option == FindOrEmpty(optionList, obj.key)
        IN SelectValue(obj.key,
                       Or(Or(obj.label, option.label), obj.key),
                       Or(obj.title, option.title))
      fromKey(key) ==
        LET option == FindOrEmpty(optionList, key)
        IN SelectValue(key, Or(option.label, key), option.title)
  IN IF labelInValue
     THEN CASE value.type = "array"  -> [i \in 1..Len(value.v) |-> fromObj(value.v[i])]
            [] value.type = "object" -> <<fromObj(value.v[1])>>
            [] OTHER                 -> <<>>
     ELSE CASE value.type \in {"string", "number"} -> <<fromKey(value.v[1])>>
            [] value.type = "array"  -> [i \in 1..Len(value.v) |-> fromKey(value.v[i])]
            [] OTHER                 -> <<>>

----------------------------------------------------------------------------
(* Search filtering *)

\* the host's filterOption(searchValue, child) when it is a function: here, the
\* option whose value is the search text, and everything for an empty text
FilterOptionFn(text, child) == text = "" \/ text = child.value

\* FilteredGroup never hiding a group
FilteredGroup_AlwaysShown(child, kids) ==
  [type |-> "group", value |-> Undefined, children |-> kids,
   title |-> Undefined, disabled |-> FALSE, isShow |-> TRUE]

\* React.cloneElement(child, {children, _isShow: !!(children && children.length)})
FilteredGroup(child, kids) ==
  [type |-> "group", value |-> Undefined, children |-> kids,
   title |-> Undefined, disabled |-> FALSE, isShow |-> Len(kids) > 0]

RECURSIVE getFilteredChildren(_, _, _, _)
getFilteredChildren(children, ChildrenList, filterOption, text) ==
  IF Len(children) = 0 THEN ChildrenList
  ELSE LET child == Head(children)
           filterFlag == CASE filterOption = "function" -> FilterOptionFn(text, child)
                           [] filterOption = "true"     -> TRUE
                           [] OTHER                     -> FALSE
           list == CASE child.type = "option" ->
                          IF filterFlag THEN Append(ChildrenList, child) ELSE ChildrenList
                     [] child.type = "group" ->
                          LET kids == getFilteredChildren(child.children, <<>>, filterOption, text)
                          IN Append(ChildrenList, FilteredGroup(child, kids))
                     [] OTHER -> ChildrenList
       IN getFilteredChildren(Tail(children), list, filterOption, text)

----------------------------------------------------------------------------
(* The props *)

\* the key the host hands in through value / defaultValue
ValueKeys == {"a"}

\* the label-carrying object the host hands in when labelInValue is set
ValueObjects == { [key |-> "a", label |-> "custom", title |-> Undefined] }

ArraysOf(S) == UNION { [1..n -> S] : n \in 0..MaxValueLen }

\* the shapes of value / defaultValue: a scalar key, an array (a key may come
\* twice), an object
ValueProps(labelInValue) ==
  IF labelInValue
  THEN { Value("object", <<o>>) : o \in ValueObjects }
         \cup { Value("array", s) : s \in ArraysOf(ValueObjects) }
  ELSE { Value("object", <<>>) }
         \cup { Value("string", <<k>>) : k \in ValueKeys }
         \cup { Value("array", s) : s \in ArraysOf(ValueKeys) }

\* static defaultProps, as far as the handlers and the guards of the rendered
\* controls read them ('maxCount' is not among the props unless hasMaxCount)
defaultProps ==
  [mode |-> "single", labelInValue |-> FALSE, filterOption |-> "true",
   esc |-> TRUE, defaultActiveFirstOption |-> FALSE, required |-> FALSE,
   hasMaxCount |-> FALSE, maxCount |-> 0, filterInactiveOption |-> FALSE,
   showSelectAll |-> FALSE, showSingleClear |-> FALSE, showSearch |-> FALSE,
   labelClear |-> FALSE, loading |-> FALSE]

\* the configurations the hosts of this model mount the component with; they
\* stay as they are while it is mounted
Configs ==
  { [defaultProps EXCEPT !.filterOption = "function", !.defaultActiveFirstOption = TRUE,
                         !.showSingleClear = TRUE, !.showSearch = TRUE],
    [defaultProps EXCEPT !.labelInValue = TRUE, !.esc = FALSE],
    [defaultProps EXCEPT !.mode = "multiple", !.defaultActiveFirstOption = TRUE,
                         !.showSelectAll = TRUE, !.labelClear = TRUE],
    [defaultProps EXCEPT !.mode = "multiple", !.labelInValue = TRUE, !.esc = FALSE,
                         !.required = TRUE, !.hasMaxCount = TRUE, !.maxCount = 1,
                         !.filterInactiveOption = TRUE, !.labelClear = TRUE],
    [defaultProps EXCEPT !.mode = "multiple", !.filterOption = "false",
                         !.hasMaxCount = TRUE, !.maxCount = 2,
                         !.filterInactiveOption = TRUE, !.showSelectAll = TRUE],
    [defaultProps EXCEPT !.loading = TRUE, !.defaultActiveFirstOption = TRUE] }

\* the props of one render: a configuration with value, visible and children
Props(config, value, visible, children) ==
  [config |-> config, value |-> value, visible |-> visible, children |-> children]

mode == props.config.mode
labelInValue == props.config.labelInValue

\* the search texts typed: "c" is the value of a disabled option only, or of none
SearchTexts == {"", "b", "c"}

----------------------------------------------------------------------------
(* Notifications to the host *)

Note(cb, kind, val) == [cb |-> cb, kind |-> kind, val |-> val]

\* onVisibleChange reporting the visibility the popup had
onVisibleChange_Negated(visible) == Note("onVisibleChange", "bool", <<~visible>>)

onVisibleChange(visible) == Note("onVisibleChange", "bool", <<visible>>)
onSearch(text)           == Note("onSearch", "text", <<text>>)
onSelect(obj)            == Note("onSelect", "object", <<obj>>)
onDeselect(obj)          == Note("onDeselect", "object", <<obj>>)

\* onChange(list) or onChange(list.map(selected => selected.key))
onChangeList(list, asObjects) ==
  IF asObjects THEN Note("onChange", "objects", list)
  ELSE Note("onChange", "keys", KeysOf(list))

\* onChangeOne handing over the key whatever labelInValue is
onChangeOne_AlwaysKey(obj, asObject) == Note("onChange", "key", <<obj.key>>)

\* onChange(obj) or onChange(obj.key)
onChangeOne(obj, asObject) ==
  IF asObject THEN Note("onChange", "object", <<obj>>)
  ELSE Note("onChange", "key", <<obj.key>>)

\* onChange()
onChangeNone == Note("onChange", "none", <<>>)

----------------------------------------------------------------------------
(* Construction *)

Handler(op, arg, again) == [op |-> op, arg |-> arg, again |-> again]

\* no ColumnFiltrateModal and no AudioPlayer is mounted
NoModal == [visible |-> FALSE, checkedOption |-> <<>>, checkedOptionConfirm |-> <<>>]
NoPlayer == [isPlay |-> Undefined, disabled |-> TRUE, allTime |-> 0, currentTime |-> 0]
NoAudio == [duration |-> 0, currentTime |-> 0, paused |-> TRUE, called |-> <<>>]

\* no static function has been called from outside
NoCall == [fn |-> "none", children |-> <<>>, filter |-> "none", text |-> ""]

\* the constructor, for a host whose children are one of `names`
constructor(names) ==
  \E config \in Configs, visible \in BOOLEAN, children \in names :
  \E value \in ValueProps(config.labelInValue) \cup {Absent},
     defaultValue \in ValueProps(config.labelInValue) \cup {Absent} :
    LET initialValue == IF value.type # "absent" THEN value
                        ELSE IF defaultValue.type # "absent" THEN defaultValue
                        ELSE Value("array", <<>>)
        initialSelectValue ==
          getValueFromProps(initialValue, config.labelInValue, ChildrenOf(children))
    IN /\ value.type # "absent" => defaultValue.type = "absent"
       /\ ~getValueFromPropsThrows(initialValue, config.labelInValue)
       /\ props = Props(config, value, visible, children)
       /\ searchValue = ""
       /\ selectValue = initialSelectValue
       /\ selectValueForMultiplePanel = initialSelectValue
       /\ popupVisible = visible
       /\ activeKey = Undefined
       /\ thrown = FALSE
       /\ fired = <<>>
       /\ last = Handler("constructor", <<>>, FALSE)
       /\ pre = initialSelectValue
       /\ focusPending = FALSE
       /\ call = NoCall
       /\ result = <<>>
       /\ modal = NoModal
       /\ player = NoPlayer
       /\ audio = NoAudio

Init == constructor(ChildrenNames)

----------------------------------------------------------------------------
(* The handlers *)

\* a handler ran: what it fired, what it was, and the state it started from
Handled(op, arg, notes) ==
  /\ fired' = notes
  /\ last' = Handler(op, arg, IF op = last.op THEN arg = last.arg ELSE FALSE)
  /\ pre' = selectValue
  /\ UNCHANGED <<props, thrown, call, result, modal, player, audio>>

\* a handler ran that did not call focus()
Ran(op, arg, notes) ==
  /\ Handled(op, arg, notes)
  /\ UNCHANGED focusPending

\* focusEvent scheduling its callback whether loading is set or not
focusEvent_IgnoresLoading ==
  focusPending' = TRUE

\* focusEvent: nothing while loading, and otherwise setTimeout(callback, 50)
focusEvent ==
  focusPending' = IF props.config.loading THEN focusPending ELSE TRUE

\* the non-disabled options of the children
EnabledOptions == getOptionFromChildren(ChildrenOf(props.children), <<>>, "notDisabled")

\* changeVisibleState never closing the popup
changeVisibleState_KeepsOpen(visible) ==
  [popupVisible |-> TRUE, activeKey |-> IF visible THEN activeKey ELSE Undefined]

\* changeVisibleState with the first option taking precedence over the selected one
changeVisibleState_FirstWins(visible) ==
  LET options == EnabledOptions
      selected == IF mode = "single" /\ Len(selectValue) > 0
                  THEN selectValue[1].key ELSE activeKey
  IN [popupVisible |-> visible,
      activeKey |-> IF visible
                    THEN (IF props.config.defaultActiveFirstOption
                          THEN (IF Len(options) > 0 THEN options[1].key ELSE Undefined)
                          ELSE selected)
                    ELSE Undefined]

\* changeVisibleState: the state it sets (it also fires onVisibleChange(visible))
changeVisibleState(visible) ==
  LET options == EnabledOptions
      first == IF props.config.defaultActiveFirstOption
               THEN (IF Len(options) > 0 THEN options[1].key ELSE Undefined)
               ELSE activeKey
  IN [popupVisible |-> visible,
      activeKey |-> IF visible
                    THEN (IF mode = "single" /\ Len(selectValue) > 0
                          THEN selectValue[1].key
                          ELSE first)
                    ELSE Undefined]

\* rc-trigger reports a click on the selection or outside the popup
visibleChangeFromTrigger(visible) ==
  LET changedState == changeVisibleState(visible)
  IN /\ selectValue' = IF ~visible /\ mode = "multiple"
                       THEN selectValueForMultiplePanel ELSE selectValue
     /\ popupVisible' = changedState.popupVisible
     /\ activeKey' = changedState.activeKey
     /\ UNCHANGED <<selectValueForMultiplePanel, searchValue>>
     /\ Handled("visibleChangeFromTrigger", <<visible>>, <<onVisibleChange(visible)>>)
     /\ IF visible THEN focusEvent ELSE UNCHANGED focusPending

\* ToggledValue with the slice bounds confused: drops the last entry, whichever
\* entry was clicked
ToggledValue_DropsLast(list, obj) ==
  LET index == FindIndex(list, obj.key) - 1
  IN IF index >= 0 THEN Slice(list, 0, -1) ELSE Append(list, obj)

\* ToggledValue putting a new entry first
ToggledValue_Prepends(list, obj) ==
  LET index == FindIndex(list, obj.key) - 1
  IN IF index >= 0
     THEN Slice(list, 0, index) \o Slice(list, index + 1, Len(list))
     ELSE <<obj>> \o list

\* ToggledValue keeping the entries in the order of the options
ToggledValue_CatalogOrder(list, obj) ==
  LET index == FindIndex(list, obj.key) - 1
  IN IF index >= 0
     THEN Slice(list, 0, index) \o Slice(list, index + 1, Len(list))
     ELSE SelectSeq(EnabledOptions, LAMBDA o : o.key \in KeySet(list) \cup {obj.key})

\* the selectValue an option click in multiple mode leaves
ToggledValue(list, obj) ==
  LET index == FindIndex(list, obj.key) - 1
  IN IF index >= 0
     THEN Slice(list, 0, index) \o Slice(list, index + 1, Len(list))
     ELSE Append(list, obj)

\* the list a click on a label's close icon leaves
LabelClosedValue(list, obj) ==
  LET indexInMultiple == FindIndex(list, obj.key) - 1
  IN Slice(list, 0, indexInMultiple) \o Slice(list, indexInMultiple + 1, Len(list))

\* SingleClickedValue adding to the selection, as multiple mode does
SingleClickedValue_Appends(list, obj) == Append(list, obj)

\* the selectValue an option click in single mode leaves
SingleClickedValue(list, obj) == <<obj>>

onOptionClick(obj, clickLabelClose) ==
  LET isSelected == FindIndex(selectValue, obj.key) - 1 >= 0
      closed == changeVisibleState(FALSE)
      changedValue == IF clickLabelClose
                      THEN LabelClosedValue(selectValueForMultiplePanel, obj)
                      ELSE ToggledValue(selectValue, obj)
  IN /\ mode \in {"single", "multiple"}
     /\ IF mode = "single"
        THEN /\ selectValue' = SingleClickedValue(selectValue, obj)
             /\ popupVisible' = closed.popupVisible
             /\ activeKey' = closed.activeKey
             /\ UNCHANGED <<selectValueForMultiplePanel, searchValue>>
             /\ Ran("onOptionClick", <<obj>>,
                    <<onVisibleChange(FALSE)>> \o
                    (IF ~isSelected THEN <<onChangeOne(obj, labelInValue)>> ELSE <<>>))
        ELSE IF clickLabelClose
        THEN /\ selectValue' = changedValue
             /\ selectValueForMultiplePanel' = changedValue
             /\ UNCHANGED <<popupVisible, activeKey, searchValue>>
             /\ Ran("onLabelClose", <<obj>>,
                    <<onDeselect(obj), onChangeList(changedValue, labelInValue)>>)
        ELSE /\ selectValue' = changedValue
             /\ UNCHANGED <<selectValueForMultiplePanel, popupVisible, activeKey, searchValue>>
             /\ Ran("onOptionClick", <<obj>>,
                    <<IF isSelected THEN onDeselect(obj) ELSE onSelect(obj)>>)

\* handleCancelSelect without the setState that restores selectValue
handleCancelSelect_KeepsEdits ==
  LET closed == changeVisibleState(FALSE)
  IN /\ popupVisible' = closed.popupVisible
     /\ activeKey' = closed.activeKey
     /\ UNCHANGED <<selectValue, selectValueForMultiplePanel, searchValue>>
     /\ Ran("handleCancelSelect", <<>>, <<onVisibleChange(FALSE)>>)

handleCancelSelect ==
  LET closed == changeVisibleState(FALSE)
  IN /\ selectValue' = selectValueForMultiplePanel
     /\ popupVisible' = closed.popupVisible
     /\ activeKey' = closed.activeKey
     /\ UNCHANGED <<selectValueForMultiplePanel, searchValue>>
     /\ Ran("handleCancelSelect", <<>>, <<onVisibleChange(FALSE)>>)

\* outputSelectedValue never filtered
outputSelectedValue_Unfiltered == selectValue

\* outputSelectedValue filtered by all the options, the disabled ones too
outputSelectedValue_KeepsDisabled ==
  IF props.config.filterInactiveOption
  THEN FilterByKeys(selectValue,
                    KeySet(getOptionFromChildren(ChildrenOf(props.children), <<>>, "none")))
  ELSE selectValue

\* the value handleConfirmSelect hands to onChange
outputSelectedValue ==
  IF props.config.filterInactiveOption
  THEN FilterByKeys(selectValue, KeySet(EnabledOptions))
  ELSE selectValue

\* handleConfirmSelect calling onChange before it closes the popup
handleConfirmSelect_ChangeFirst ==
  LET closed == changeVisibleState(FALSE)
  IN /\ selectValueForMultiplePanel' = selectValue
     /\ popupVisible' = closed.popupVisible
     /\ activeKey' = closed.activeKey
     /\ UNCHANGED <<selectValue, searchValue>>
     /\ Ran("handleConfirmSelect", <<>>,
            <<onChangeList(outputSelectedValue, labelInValue), onVisibleChange(FALSE)>>)

handleConfirmSelect ==
  LET closed == changeVisibleState(FALSE)
  IN /\ selectValueForMultiplePanel' = selectValue
     /\ popupVisible' = closed.popupVisible
     /\ activeKey' = closed.activeKey
     /\ UNCHANGED <<selectValue, searchValue>>
     /\ Ran("handleConfirmSelect", <<>>,
            <<onVisibleChange(FALSE), onChangeList(outputSelectedValue, labelInValue)>>)

\* isSelectAll looking at the committed selection, as isSelectAll(true) does
isSelectAll_Pending ==
  \A i \in 1..Len(EnabledOptions) :
    FindIndex(selectValueForMultiplePanel, EnabledOptions[i].key) > 0

\* isSelectAll(): every non-disabled option is found in selectValue
isSelectAll ==
  \A i \in 1..Len(EnabledOptions) : FindIndex(selectValue, EnabledOptions[i].key) > 0

selectAllOption ==
  /\ selectValue' = IF isSelectAll THEN <<>> ELSE EnabledOptions
  /\ UNCHANGED <<selectValueForMultiplePanel, popupVisible, activeKey, searchValue>>
  /\ Ran("selectAllOption", <<>>, <<>>)

\* emptySelectValue without the setState that empties selectValue
emptySelectValue_KeepsValue ==
  LET closed == changeVisibleState(FALSE)
  IN /\ popupVisible' = closed.popupVisible
     /\ activeKey' = closed.activeKey
     /\ UNCHANGED <<selectValue, selectValueForMultiplePanel, searchValue>>
     /\ Ran("emptySelectValue", <<>>, <<onVisibleChange(FALSE), onChangeNone>>)

emptySelectValue ==
  LET closed == changeVisibleState(FALSE)
  IN /\ selectValue' = <<>>
     /\ popupVisible' = closed.popupVisible
     /\ activeKey' = closed.activeKey
     /\ UNCHANGED <<selectValueForMultiplePanel, searchValue>>
     /\ Ran("emptySelectValue", <<>>, <<onVisibleChange(FALSE), onChangeNone>>)

\* updateSearchValue without the call of onSearch
updateSearchValue_Silent(text) ==
  /\ searchValue' = text
  /\ UNCHANGED <<selectValue, selectValueForMultiplePanel, popupVisible, activeKey>>
  /\ Ran("updateSearchValue", <<text>>, <<>>)

updateSearchValue(text) ==
  /\ searchValue' = text
  /\ UNCHANGED <<selectValue, selectValueForMultiplePanel, popupVisible, activeKey>>
  /\ Ran("updateSearchValue", <<text>>, <<onSearch(text)>>)

emptySearchValue ==
  /\ searchValue' = ""
  /\ UNCHANGED <<selectValue, selectValueForMultiplePanel, popupVisible, activeKey>>
  /\ Handled("emptySearchValue", <<>>, <<onSearch("")>>)
  /\ focusEvent

\* KeyboardOptions without the search
KeyboardOptions_Unfiltered == EnabledOptions

\* the options the keyboard moves over: filtered by the search, then without the disabled
KeyboardOptions ==
  getOptionFromChildren(
    getFilteredChildren(ChildrenOf(props.children), <<>>, props.config.filterOption, searchValue),
    <<>>, "notDisabled")

\* NextIndex stopping at the ends of the list
NextIndex_NoWrap(keyCode, activeTabIndex, optionListLen) ==
  IF keyCode = "UP"
  THEN (IF activeTabIndex = 0 THEN 0 ELSE activeTabIndex - 1)
  ELSE IF keyCode = "DOWN"
  THEN (IF activeTabIndex + 1 = optionListLen THEN activeTabIndex ELSE activeTabIndex + 1)
  ELSE 0

\* the index ArrowUp / ArrowDown move to from activeTabIndex (0-based)
NextIndex(keyCode, activeTabIndex, optionListLen) ==
  IF keyCode = "UP"
  THEN (IF activeTabIndex = 0 THEN optionListLen - 1 ELSE activeTabIndex - 1)
  ELSE IF keyCode = "DOWN"
  THEN (IF activeTabIndex + 1 = optionListLen THEN 0 ELSE activeTabIndex + 1)
  ELSE 0

\* EnterSelects taking the active option whether it is selected or not
EnterSelects_Always(list, key) == TRUE

\* Enter acts on the active option: no entry of selectValue has its key
EnterSelects(list, key) == FindIndex(list, key) = 0

handleKeyboardEvent(keyCode) ==
  LET optionList == KeyboardOptions
      optionListLen == Len(optionList)
      activeTabIndex == FindIndex(optionList, activeKey) - 1
      closed == changeVisibleState(FALSE)
      nothing == /\ UNCHANGED <<selectValue, selectValueForMultiplePanel, popupVisible,
                                activeKey, searchValue>>
                 /\ Ran("handleKeyboardEvent", <<keyCode>>, <<>>)
  IN IF keyCode = "ESC" /\ props.config.esc
     THEN /\ popupVisible' = closed.popupVisible
          /\ activeKey' = closed.activeKey
          /\ UNCHANGED <<selectValue, selectValueForMultiplePanel, searchValue>>
          /\ Ran("handleKeyboardEvent", <<keyCode>>, <<onVisibleChange(FALSE)>>)
     ELSE IF keyCode \notin {"ENTER", "UP", "DOWN"} \/ optionListLen = 0
     THEN nothing
     ELSE IF keyCode = "ENTER"
     THEN IF activeTabIndex # -1 /\ EnterSelects(selectValue, activeKey)
          THEN IF mode = "single"
               THEN /\ selectValue' = <<optionList[activeTabIndex + 1]>>
                    /\ popupVisible' = closed.popupVisible
                    /\ activeKey' = Undefined
                    /\ UNCHANGED <<selectValueForMultiplePanel, searchValue>>
                    /\ Ran("handleKeyboardEvent", <<keyCode>>,
                           <<onVisibleChange(FALSE),
                             onChangeOne(optionList[activeTabIndex + 1], labelInValue)>>)
               ELSE IF mode = "multiple"
               THEN /\ selectValue' = Append(selectValue, optionList[activeTabIndex + 1])
                    /\ UNCHANGED <<selectValueForMultiplePanel, popupVisible, activeKey,
                                   searchValue>>
                    /\ Ran("handleKeyboardEvent", <<keyCode>>, <<>>)
               ELSE nothing
          ELSE nothing
     ELSE /\ activeKey' =
               IF activeKey # Undefined
               THEN (IF activeTabIndex = -1
                     THEN optionList[1].key
                     ELSE optionList[NextIndex(keyCode, activeTabIndex, optionListLen) + 1].key)
               ELSE optionList[1].key
          /\ UNCHANGED <<selectValue, selectValueForMultiplePanel, popupVisible, searchValue>>
          /\ Ran("handleKeyboardEvent", <<keyCode>>, <<>>)

\* isEqual finding any two values different
isEqual_Never(a, b) == FALSE

\* lodash isEqual: deep equality
isEqual(a, b) == a = b

\* the host renders the component with other props
getDerivedStateFromProps(nextProps) ==
  LET changedValue == getValueFromProps(nextProps.value, nextProps.config.labelInValue,
                                        ChildrenOf(nextProps.children))
      prevValue == getValueFromProps(props.value, props.config.labelInValue,
                                     ChildrenOf(props.children))
      hasValue == nextProps.value.type # "absent"
  IN IF hasValue /\ getValueFromPropsThrows(nextProps.value, nextProps.config.labelInValue)
     THEN /\ thrown' = TRUE
          /\ fired' = <<>>
          /\ last' = Handler("getDerivedStateFromProps", <<>>, FALSE)
          /\ pre' = selectValue
          /\ UNCHANGED <<props, searchValue, selectValue, selectValueForMultiplePanel,
                         popupVisible, activeKey, focusPending, call, result,
                         modal, player, audio>>
     ELSE /\ props' = nextProps
          /\ popupVisible' = IF ~isEqual(nextProps.visible, props.visible)
                             THEN nextProps.visible ELSE popupVisible
          /\ selectValue' = IF hasValue /\ ~isEqual(changedValue, prevValue)
                            THEN changedValue ELSE selectValue
          /\ selectValueForMultiplePanel' =
               IF hasValue /\ ~isEqual(changedValue, prevValue)
                  /\ nextProps.config.mode = "multiple"
               THEN changedValue ELSE selectValueForMultiplePanel
          /\ fired' = <<>>
          /\ last' = Handler("getDerivedStateFromProps", <<>>, FALSE)
          /\ pre' = selectValue
          /\ UNCHANGED <<searchValue, activeKey, thrown, focusPending, call, result,
                         modal, player, audio>>

----------------------------------------------------------------------------
(* What the user and the host can do in a state *)

\* the options rendered in the popup that take a click: those the search keeps,
\* an Option ignoring the click when it is disabled
ClickableOptions == KeyboardOptions

\* multipleConfirmDisabled with the limit itself counted as exceeding it
multipleConfirmDisabled_AtLimit ==
  LET maxCountError == props.config.hasMaxCount /\ Len(selectValue) >= props.config.maxCount
      requiredError == mode = "multiple" /\ props.config.required /\ Len(selectValue) = 0
  IN maxCountError \/ requiredError

\* the confirm button is rendered disabled
multipleConfirmDisabled ==
  LET maxCountError == props.config.hasMaxCount /\ Len(selectValue) > props.config.maxCount
      requiredError == mode = "multiple" /\ props.config.required /\ Len(selectValue) = 0
  IN maxCountError \/ requiredError

\* the component is mounted: no lifecycle method has thrown
Mounted == ~thrown

\* the content of the popup and of the selection is rendered, not the spinner
Rendered == Mounted /\ ~props.config.loading

\* the callbacks of focusEvent that were waiting have run, the last of them
\* now: each calls focus() or blur() on the search input or on the panel
FocusTimer ==
  /\ focusPending
  /\ focusPending' = FALSE
  /\ UNCHANGED <<props, searchValue, selectValue, selectValueForMultiplePanel,
                 popupVisible, activeKey, thrown, fired, last, pre, call, result,
                 modal, player, audio>>

TriggerClick ==
  /\ Mounted
  /\ \E visible \in BOOLEAN :
       visible # popupVisible /\ visibleChangeFromTrigger(visible)

OptionClick ==
  /\ Rendered /\ popupVisible
  /\ \E i \in 1..Len(ClickableOptions) : onOptionClick(ClickableOptions[i], FALSE)

LabelClose ==
  /\ Rendered /\ mode = "multiple" /\ props.config.labelClear
  /\ \E i \in 1..Len(selectValueForMultiplePanel) :
       onOptionClick(selectValueForMultiplePanel[i], TRUE)

Cancel == Rendered /\ popupVisible /\ mode = "multiple" /\ handleCancelSelect

Confirm ==
  /\ Rendered /\ popupVisible /\ mode = "multiple"
  /\ ~multipleConfirmDisabled
  /\ handleConfirmSelect

SelectAll ==
  /\ Rendered /\ popupVisible /\ mode = "multiple"
  /\ props.config.showSelectAll /\ searchValue = ""
  /\ selectAllOption

Clear ==
  /\ Rendered /\ popupVisible /\ mode = "single"
  /\ props.config.showSingleClear /\ searchValue = ""
  /\ emptySelectValue

Search ==
  /\ Rendered /\ popupVisible /\ props.config.showSearch
  /\ \E text \in SearchTexts : text # searchValue /\ updateSearchValue(text)

SearchClear ==
  /\ Rendered /\ popupVisible /\ props.config.showSearch /\ searchValue # ""
  /\ emptySearchValue

KeyDown ==
  /\ Mounted /\ popupVisible
  /\ \E keyCode \in {"ESC", "ENTER", "UP", "DOWN"} : handleKeyboardEvent(keyCode)

\* the host renders again, with another value, visible or children (one of
\* them at a time)
PropsUpdate ==
  /\ Mounted
  /\ \E nextProps \in
          { [props EXCEPT !.value = value] :
              value \in ValueProps(labelInValue) \cup {Absent} }
            \cup { [props EXCEPT !.visible = ~props.visible] }
            \cup { [props EXCEPT !.children = children] : children \in ChildrenNames } :
       /\ nextProps # props
       /\ getDerivedStateFromProps(nextProps)

Next ==
  \/ TriggerClick
  \/ OptionClick
  \/ LabelClose
  \/ Cancel
  \/ Confirm
  \/ SelectAll
  \/ Clear
  \/ Search
  \/ SearchClear
  \/ KeyDown
  \/ PropsUpdate
  \/ FocusTimer

Spec == Init /\ [][Next]_vars

\* the host renders again with the visible prop turned over
VisibleUpdate ==
  /\ Mounted
  /\ getDerivedStateFromProps([props EXCEPT !.visible = ~props.visible])

\* the component under a host that keeps the children and the value it mounted
\* it with
CatalogInit == constructor(CatalogNames)

CatalogNext ==
  \/ TriggerClick
  \/ VisibleUpdate
  \/ OptionClick
  \/ SelectAll
  \/ Clear
  \/ Search
  \/ SearchClear
  \/ KeyDown
  \/ FocusTimer

CatalogSpec == CatalogInit /\ [][CatalogNext]_vars

----------------------------------------------------------------------------
(* The static functions, called on other trees than the component's *)

\* the children a tree is made of: options, one of them disabled, groups, one of
\* them empty and two of them with a group inside, and something else
TreeNodes ==
  << OptionNode("a", "A", "tA", FALSE),
     OptionNode("b", "B", Undefined, TRUE),
     OtherNode,
     OptGroupNode(<< >>),
     OptGroupNode(<< OptionNode("c", "C", Undefined, FALSE) >>),
     OptGroupNode(<< OptionNode("d", "D", "tD", TRUE),
                     OptionNode("e", "E", Undefined, FALSE) >>),
     OptGroupNode(<< OptGroupNode(<< OptionNode("f", "F", Undefined, FALSE) >>),
                     OtherNode,
                     OptionNode("g", "G", "tG", FALSE) >>),
     OptGroupNode(<< OptGroupNode(<< >>) >>) >>

\* a tree is written as the places of its children in TreeNodes
TreeCodes == UNION { [1..n -> 1..Len(TreeNodes)] : n \in 0..MaxTreeLen }

TreeOf(codes) == [i \in 1..Len(codes) |-> TreeNodes[codes[i]]]

\* nothing is mounted but a component with the default props, closed
FnInit ==
  /\ props = Props(defaultProps, Absent, FALSE, "cat0")
  /\ searchValue = ""
  /\ selectValue = <<>>
  /\ selectValueForMultiplePanel = <<>>
  /\ popupVisible = FALSE
  /\ activeKey = Undefined
  /\ thrown = FALSE
  /\ fired = <<>>
  /\ last = Handler("constructor", <<>>, FALSE)
  /\ pre = <<>>
  /\ focusPending = FALSE
  /\ call = NoCall
  /\ result = <<>>
  /\ modal = NoModal
  /\ player = NoPlayer
  /\ audio = NoAudio

\* Select.getOptionFromChildren(children, [], filter)
CallGetOptionFromChildren ==
  /\ call = NoCall
  /\ \E codes \in TreeCodes, filter \in {"none", "notDisabled"} :
       /\ call' = [fn |-> "getOptionFromChildren", children |-> codes,
                   filter |-> filter, text |-> ""]
       /\ result' = getOptionFromChildren(TreeOf(codes), <<>>, filter)
  /\ UNCHANGED <<props, searchValue, selectValue, selectValueForMultiplePanel,
                 popupVisible, activeKey, thrown, fired, last, pre, focusPending,
                 modal, player, audio>>

\* getFilteredChildren(children) of a component whose filterOption and
\* searchValue are these
CallGetFilteredChildren ==
  /\ call = NoCall
  /\ \E codes \in TreeCodes, filterOption \in {"function", "true", "false"},
        text \in SearchTexts :
       /\ call' = [fn |-> "getFilteredChildren", children |-> codes,
                   filter |-> filterOption, text |-> text]
       /\ result' = getFilteredChildren(TreeOf(codes), <<>>, filterOption, text)
  /\ UNCHANGED <<props, searchValue, selectValue, selectValueForMultiplePanel,
                 popupVisible, activeKey, thrown, fired, last, pre, focusPending,
                 modal, player, audio>>

FnNext ==
  \/ CallGetOptionFromChildren
  \/ CallGetFilteredChildren

FnSpec == FnInit /\ [][FnNext]_vars

----------------------------------------------------------------------------
(* ColumnFiltrateModal *)

\* a column of the table; hasColSpan is 'colSpan' in column
Column(title, key, dataIndex, hasColSpan, colSpan, fixed, hasChildren) ==
  [title |-> title, key |-> key, dataIndex |-> dataIndex, hasColSpan |-> hasColSpan,
   colSpan |-> colSpan, fixed |-> fixed, hasChildren |-> hasChildren]

PlainColumn(title, key) == Column(title, key, Undefined, FALSE, 1, FALSE, FALSE)

\* the tables: plain columns, one of them named by its dataIndex; a fixed column
\* and a column group before plain ones; a header over two columns before plain
\* ones
ColumnsOf(name) ==
  CASE name = "plain" ->
         << PlainColumn("A", "a"), PlainColumn("B", "b"),
            Column("C", Undefined, "c", FALSE, 1, FALSE, FALSE) >>
    [] name = "fixed" ->
         << Column("F", "f", Undefined, FALSE, 1, TRUE, FALSE),
            Column("G", "g", Undefined, FALSE, 1, FALSE, TRUE),
            PlainColumn("A", "a"), PlainColumn("B", "b"), PlainColumn("C", "c") >>
    [] name = "merged" ->
         << Column("T", "k1", Undefined, TRUE, 2, FALSE, FALSE),
            Column("", "k2", Undefined, TRUE, 0, FALSE, FALSE),
            PlainColumn("A", "a"), PlainColumn("B", "b") >>

ColumnsNames == {"plain", "fixed", "merged"}

\* the hideColumns and the defaultColumns of the hosts
HideColumns == { <<>>, <<"a">>, <<"a", "b", "c">> }
DefaultColumns == { <<>>, <<"b">> }

Includes(list, x) == \E i \in 1..Len(list) : list[i] = x

getColumnKey(column) ==
  IF column.hasColSpan THEN column.title
  ELSE Or(Or(column.key, column.dataIndex), column.title)

\* columns.slice(index, index + colSpan).map(column => column.key || column.dataIndex)
SpannedKeys(columns, index, colSpan) ==
  LET to == IF index + colSpan - 1 > Len(columns) THEN Len(columns) ELSE index + colSpan - 1
  IN [i \in 1..(to - index + 1) |->
        Or(columns[index + i - 1].key, columns[index + i - 1].dataIndex)]

\* this.colSpanOption, as the constructor fills it
RECURSIVE colSpanOptionFrom(_, _)
colSpanOptionFrom(columns, index) ==
  IF index > Len(columns) THEN <<>>
  ELSE (IF columns[index].hasColSpan /\ columns[index].colSpan # 0
        THEN << [key |-> columns[index].title,
                 value |-> SpannedKeys(columns, index, columns[index].colSpan)] >>
        ELSE <<>>)
       \o colSpanOptionFrom(columns, index + 1)

colSpanOption == colSpanOptionFrom(ColumnsOf(props.columns), 1)

\* the checkedOption the constructor starts from
InitialOption(columns, hideColumns) ==
  LET shown == SelectSeq(columns, LAMBDA column :
                 column.colSpan # 0 /\ ~Includes(hideColumns, getColumnKey(column)))
  IN [i \in 1..Len(shown) |-> getColumnKey(shown[i])]

\* the columns that are not fixed and whose key is in checkedOption
CheckedNotFixed(columns, checkedOption) ==
  SelectSeq(columns, LAMBDA column :
    ~column.fixed /\ Includes(checkedOption, getColumnKey(column)))

\* OptionDisabled without the rule that keeps one column that is not fixed
OptionDisabled_KeepsNone(columns, checkedOption, column) ==
  LET notFixedColumns == SelectSeq(columns, LAMBDA c : ~c.fixed)
      isAnyColumnsFixed == \E i \in 1..Len(columns) : columns[i].fixed
  IN \/ column.fixed
     \/ column.hasChildren
     \/ /\ isAnyColumnsFixed
        /\ getColumnKey(column) = Or(notFixedColumns[Len(notFixedColumns)].key,
                                     notFixedColumns[Len(notFixedColumns)].dataIndex)

\* the disabled of an option of getOptions
OptionDisabled(columns, checkedOption, column) ==
  LET notFixedColumns == SelectSeq(columns, LAMBDA c : ~c.fixed)
      isAnyColumnsFixed == \E i \in 1..Len(columns) : columns[i].fixed
  IN \/ column.fixed
     \/ column.hasChildren
     \/ /\ isAnyColumnsFixed
        /\ getColumnKey(column) = Or(notFixedColumns[Len(notFixedColumns)].key,
                                     notFixedColumns[Len(notFixedColumns)].dataIndex)
     \/ /\ Includes(checkedOption, getColumnKey(column))
        /\ Len(CheckedNotFixed(columns, checkedOption)) = 1

getOptions(checkedOption) ==
  LET columns == ColumnsOf(props.columns)
      shown == SelectSeq(columns, LAMBDA column : column.colSpan # 0)
      options == [i \in 1..Len(shown) |->
                    [label |-> shown[i].title, value |-> getColumnKey(shown[i]),
                     disabled |-> OptionDisabled(columns, checkedOption, shown[i])]]
  IN SelectSeq(options, LAMBDA option : ~Includes(props.defaultColumns, option.value))

\* HiddenKeys of every option, the checked ones too
HiddenKeys_All(options, checkedOptionConfirm) ==
  LET RECURSIVE keys(_)
      keys(i) ==
        IF i > Len(options) THEN <<>>
        ELSE (LET indexOfColSpan == FindIndex(colSpanOption, options[i].value) - 1
              IN IF indexOfColSpan # -1
                 THEN colSpanOption[indexOfColSpan + 1].value
                 ELSE <<options[i].value>>)
             \o keys(i + 1)
  IN keys(1)

\* flatten(options.filter(not in checkedOptionConfirm).map(the keys a header
\* spans, or the value))
HiddenKeys(options, checkedOptionConfirm) ==
  LET hidden == SelectSeq(options, LAMBDA option :
                  ~Includes(checkedOptionConfirm, option.value))
      RECURSIVE keys(_)
      keys(i) ==
        IF i > Len(hidden) THEN <<>>
        ELSE (LET indexOfColSpan == FindIndex(colSpanOption, hidden[i].value) - 1
              IN IF indexOfColSpan # -1
                 THEN colSpanOption[indexOfColSpan + 1].value
                 ELSE <<hidden[i].value>>)
             \o keys(i + 1)
  IN keys(1)

\* the history of a handler of the modal or of the player, or of something the
\* audio element did
Noted(op, arg, notes) ==
  /\ fired' = notes
  /\ last' = Handler(op, arg, FALSE)
  /\ UNCHANGED <<props, searchValue, selectValue, selectValueForMultiplePanel,
                 popupVisible, activeKey, thrown, focusPending, call, result>>

\* a handler of the modal ran: `pre` is the checkedOption it started from
ModalHandled(op, notes) ==
  /\ Noted(op, <<>>, notes)
  /\ pre' = modal.checkedOption
  /\ UNCHANGED <<player, audio>>

ModalInit ==
  /\ \E columns \in ColumnsNames, hideColumns \in HideColumns,
        defaultColumns \in DefaultColumns :
       LET option == InitialOption(ColumnsOf(columns), hideColumns)
       IN /\ props = [columns |-> columns, hideColumns |-> hideColumns,
                      defaultColumns |-> defaultColumns]
          /\ modal = [visible |-> FALSE, checkedOption |-> option,
                      checkedOptionConfirm |-> option]
  /\ searchValue = ""
  /\ selectValue = <<>>
  /\ selectValueForMultiplePanel = <<>>
  /\ popupVisible = FALSE
  /\ activeKey = Undefined
  /\ thrown = FALSE
  /\ fired = <<>>
  /\ last = Handler("constructor", <<>>, FALSE)
  /\ pre = <<>>
  /\ focusPending = FALSE
  /\ call = NoCall
  /\ result = <<>>
  /\ player = NoPlayer
  /\ audio = NoAudio

showModal ==
  /\ modal' = [modal EXCEPT !.visible = TRUE]
  /\ ModalHandled("showModal", <<>>)

\* onOk of the Modal: the callback of setState reads the state after the commit
handleOk ==
  /\ modal.visible
  /\ modal' = [modal EXCEPT !.visible = FALSE,
                            !.checkedOptionConfirm = modal.checkedOption]
  /\ ModalHandled("handleOk",
                  <<Note("onChange", "keys",
                         HiddenKeys(getOptions(modal.checkedOption), modal.checkedOption))>>)

\* handleCancel closing the modal and keeping the boxes as they are
handleCancel_KeepsEdits ==
  /\ modal.visible
  /\ modal' = [modal EXCEPT !.visible = FALSE]
  /\ ModalHandled("handleCancel", <<>>)

\* onCancel of the Modal
handleCancel ==
  /\ modal.visible
  /\ modal' = [modal EXCEPT !.visible = FALSE,
                            !.checkedOption = modal.checkedOptionConfirm]
  /\ ModalHandled("handleCancel", <<>>)

\* the value a CheckboxGroup hands to onChange when the box of `value` is
\* clicked: the value pushed when it was not in the list, spliced out when it was
ToggledOption(checkedOption, value) ==
  LET index == CHOOSE i \in 0..Len(checkedOption) :
                 /\ i > 0 => checkedOption[i] = value
                 /\ \A j \in 1..Len(checkedOption) : checkedOption[j] = value => i > 0 /\ i <= j
  IN IF index = 0 THEN Append(checkedOption, value)
     ELSE SubSeq(checkedOption, 1, index - 1)
            \o SubSeq(checkedOption, index + 1, Len(checkedOption))

\* onChange of the CheckboxGroup: a box that is not disabled was clicked
CheckboxChange ==
  /\ modal.visible
  /\ \E i \in 1..Len(getOptions(modal.checkedOption)) :
       LET option == getOptions(modal.checkedOption)[i]
       IN /\ ~option.disabled
          /\ modal' = [modal EXCEPT !.checkedOption =
                                       ToggledOption(modal.checkedOption, option.value)]
  /\ ModalHandled("onChange", <<>>)

ModalNext ==
  \/ showModal
  \/ handleOk
  \/ handleCancel
  \/ CheckboxChange

ModalSpec == ModalInit /\ [][ModalNext]_vars

----------------------------------------------------------------------------
(* AudioPlayer *)

\* times are counted in half seconds; the duration of an element that has no
\* media yet is NaN, which is equal to no time
NaN == -1

\* the durations of the media of the hosts: half a second, and two seconds
Durations == {1, 4}

\* the src props of the hosts: none, and a file
Sources == {"", "file"}

\* parseInt(String(time)): the whole seconds, NaN for NaN
ParseInt(halves) == IF halves = NaN THEN NaN ELSE halves \div 2

\* millisecondToDate(time, false): minute * 60 + second, the whole seconds
millisecondToDate(halves) ==
  LET second == (halves \div 2) % 60
      minute == (halves \div 2) \div 60
  IN minute * 60 + second

\* a boolean of the state that useState() starts without a value
True == "true"
False == "false"

\* HTMLMediaElement.play(): no longer paused, from the start when it had ended
Played(element) ==
  [element EXCEPT !.paused = FALSE,
                  !.currentTime = IF element.currentTime = element.duration
                                  THEN 0 ELSE element.currentTime,
                  !.called = Append(@, "play")]

\* HTMLMediaElement.pause()
Paused(element) == [element EXCEPT !.paused = TRUE, !.called = Append(@, "pause")]

\* the element at the start of a handler: nothing of it called yet
Uncalled(element) == [element EXCEPT !.called = <<>>]

\* the mount: useState, then the effect that plays when autoPlay is set
PlayerInit ==
  /\ \E src \in Sources, autoPlay \in BOOLEAN :
       /\ props = [src |-> src, autoPlay |-> autoPlay]
       /\ player = [isPlay |-> Undefined, disabled |-> (src = ""),
                     allTime |-> 0, currentTime |-> 0]
       /\ audio = LET element == [duration |-> NaN, currentTime |-> 0,
                                  paused |-> TRUE, called |-> <<>>]
                  IN IF autoPlay THEN Played(element) ELSE element
  /\ searchValue = ""
  /\ selectValue = <<>>
  /\ selectValueForMultiplePanel = <<>>
  /\ popupVisible = FALSE
  /\ activeKey = Undefined
  /\ thrown = FALSE
  /\ fired = <<>>
  /\ last = Handler("constructor", <<>>, FALSE)
  /\ pre = <<>>
  /\ focusPending = FALSE
  /\ call = NoCall
  /\ result = <<>>
  /\ modal = NoModal

\* ReturnsEarly of a player that never looks at disabled
ReturnsEarly_Never(type) == FALSE

\* if (disabled) return, in the cases 'play' and 'pause'
ReturnsEarly(type) == type \in {"play", "pause"} /\ player.disabled

\* controlAudio(type, value), for the types the element and the controls of
\* the progress and of play and pause call it with
controlAudio(type, value) ==
  /\ CASE type = "allTime" ->
            /\ player' = [player EXCEPT !.allTime = audio.duration,
                                        !.disabled = (ParseInt(audio.duration) = 0)]
            /\ audio' = Uncalled(audio)
            /\ Noted("controlAudio", <<type>>, <<Note("onCanPlay", "none", <<>>)>>)
       [] type \in {"play", "pause"} /\ ReturnsEarly(type) ->
            /\ player' = player
            /\ audio' = Uncalled(audio)
            /\ Noted("controlAudio", <<type>>, <<>>)
       [] type = "play" /\ ~ReturnsEarly(type) ->
            /\ player' = [player EXCEPT !.isPlay = True]
            /\ audio' = Played(Uncalled(audio))
            /\ Noted("controlAudio", <<type>>, <<>>)
       [] type = "pause" /\ ~ReturnsEarly(type) ->
            /\ player' = [player EXCEPT !.isPlay = False]
            /\ audio' = Paused(Uncalled(audio))
            /\ Noted("controlAudio", <<type>>, <<>>)
       [] type = "changeCurrentTime" ->
            /\ player' = [player EXCEPT !.currentTime = value,
                                        !.isPlay = IF value = audio.duration
                                                   THEN False ELSE @]
            /\ audio' = [Uncalled(audio) EXCEPT !.currentTime = value]
            /\ Noted("controlAudio", <<type>>, <<>>)
       [] type = "getCurrentTime" ->
            /\ player' = [player EXCEPT !.currentTime = audio.currentTime,
                                        !.isPlay = IF audio.currentTime = audio.duration
                                                   THEN False ELSE @]
            /\ audio' = Uncalled(audio)
            /\ Noted("controlAudio", <<type>>, <<>>)
  /\ UNCHANGED <<pre, modal>>

\* onCanPlay of the element: the media of src can be played, its duration is known
CanPlay ==
  /\ props.src # "" /\ audio.duration # NaN
  /\ controlAudio("allTime", 0)

\* the click on the play / pause box
PlayPauseClick ==
  \E type \in {"play", "pause"} :
    /\ type = IF player.isPlay = True THEN "pause" ELSE "play"
    /\ controlAudio(type, 0)

\* onChange of the progress Slider, which is disabled with the player and goes
\* by whole seconds up to millisecondToDate(allTime, false)
ProgressChange ==
  /\ ~player.disabled
  /\ \E second \in 0..millisecondToDate(player.allTime) :
       controlAudio("changeCurrentTime", 2 * second)

\* onTimeUpdate of the element: the current time as the element has it
TimeUpdate ==
  /\ props.src # "" /\ audio.duration # NaN
  /\ controlAudio("getCurrentTime", 0)

\* the element loads the media of src: its duration is known from now on
MediaLoaded ==
  /\ props.src # "" /\ audio.duration = NaN
  /\ \E duration \in Durations : audio' = [audio EXCEPT !.duration = duration]
  /\ Noted("loadedmetadata", <<>>, <<>>)
  /\ UNCHANGED <<pre, modal, player>>

\* the element plays on: its current time moves towards the duration, where it
\* stops and is paused
Playback ==
  /\ ~audio.paused /\ audio.duration # NaN /\ audio.currentTime < audio.duration
  /\ \E time \in (audio.currentTime + 1)..audio.duration :
       audio' = [audio EXCEPT !.currentTime = time,
                              !.paused = (time = audio.duration)]
  /\ Noted("playing", <<>>, <<>>)
  /\ UNCHANGED <<pre, modal, player>>

PlayerNext ==
  \/ CanPlay
  \/ PlayPauseClick
  \/ ProgressChange
  \/ TimeUpdate
  \/ MediaLoaded
  \/ Playback

PlayerSpec == PlayerInit /\ [][PlayerNext]_vars

----------------------------------------------------------------------------
(* Vocabulary of the properties *)

\* what the handlers and the renders change: every variable but focusPending,
\* which alone the callback of focusEvent changes when it runs
stateVars == <<props, searchValue, selectValue, selectValueForMultiplePanel,
               popupVisible, activeKey, thrown, fired, last, pre, call, result,
               modal, player, audio>>

\* the position of the first entry of `list` with this key
FirstIndexOf(list, key) ==
  CHOOSE i \in 1..Len(list) :
    list[i].key = key /\ \A j \in 1..(i - 1) : list[j].key # key

\* `list` without its i-th entry
RemoveAt(list, i) ==
  [j \in 1..(Len(list) - 1) |-> IF j < i THEN list[j] ELSE list[j + 1]]

\* `list` without its first entry with this key
WithoutFirst(list, key) ==
  IF key \in KeySet(list) THEN RemoveAt(list, FirstIndexOf(list, key)) ELSE list

\* how many entries of `list` have this key
Occurrences(list, key) == Cardinality({i \in 1..Len(list) : list[i].key = key})

NoDuplicateKeys(list) ==
  \A i, j \in 1..Len(list) : list[i].key = list[j].key => i = j

\* the onChange notifications among `notes`
Changes(notes) == SelectSeq(notes, LAMBDA n : n.cb = "onChange")

\* `note` is onChange carrying `list` in the shape labelInValue asks for
CarriesList(note, list) ==
  /\ note.cb = "onChange"
  /\ IF labelInValue
     THEN note.kind = "objects" /\ note.val = list
     ELSE note.kind = "keys" /\ note.val = KeysOf(list)

\* the entries of `list` whose key is the key of a non-disabled option of the
\* children as they are now
LiveEntries(list) ==
  SelectSeq(list, LAMBDA e : \E i \in 1..Len(EnabledOptions) : EnabledOptions[i].key = e.key)

\* the search keeps this option
SearchKeeps(option) ==
  CASE props.config.filterOption = "function" ->
         FilterOptionFn(searchValue, [value |-> option.key])
    [] props.config.filterOption = "true" -> TRUE
    [] OTHER -> FALSE

\* the non-disabled options the search keeps, in the order of the children
ShownOptions == SelectSeq(EnabledOptions, SearchKeeps)

\* the place of this key among ShownOptions, counted from 0
ShownIndex(key) == (CHOOSE i \in 1..Len(ShownOptions) : ShownOptions[i].key = key) - 1

\* the key pressed was an arrow
IsArrow(handler) ==
  handler.op = "handleKeyboardEvent" /\ handler.arg[1] \in {"UP", "DOWN"}

\* the key pressed was this one
IsKey(handler, keyCode) ==
  handler.op = "handleKeyboardEvent" /\ handler.arg[1] = keyCode

\* the onVisibleChange notifications among `notes`
VisibleChanges(notes) == SelectSeq(notes, LAMBDA n : n.cb = "onVisibleChange")

\* the Option children of a tree, those inside its groups in their place
RECURSIVE OptionLeaves(_)
OptionLeaves(children) ==
  IF Len(children) = 0 THEN <<>>
  ELSE LET child == Head(children)
       IN (CASE child.type = "option" -> <<child>>
             [] child.type = "group"  -> OptionLeaves(child.children)
             [] OTHER                 -> <<>>)
          \o OptionLeaves(Tail(children))

\* a tree written out node by node: an option with its value, a group with
\* whether it is shown, then its children, then its end
RECURSIVE WrittenOut(_)
WrittenOut(children) ==
  IF Len(children) = 0 THEN <<>>
  ELSE LET child == Head(children)
       IN (CASE child.type = "option" -> << <<"option", child.value>> >>
             [] child.type = "group"  ->
                  << <<"group", IF child.isShow THEN "shown" ELSE "hidden">> >>
                  \o WrittenOut(child.children) \o << <<"end", "">> >>
             [] OTHER                 -> << <<"other", "">> >>)
          \o WrittenOut(Tail(children))

\* what the filtered tree of `children` is to be, written out: the options the
\* filter accepts, every group, hidden when nothing of it is left
RECURSIVE FilteredWrittenOut(_, _, _)
FilteredWrittenOut(children, filterOption, text) ==
  IF Len(children) = 0 THEN <<>>
  ELSE LET child == Head(children)
           accepted == \/ filterOption = "true"
                       \/ filterOption = "function" /\ FilterOptionFn(text, child)
           inner == FilteredWrittenOut(child.children, filterOption, text)
       IN (CASE child.type = "option" ->
                  IF accepted THEN << <<"option", child.value>> >> ELSE <<>>
             [] child.type = "group"  ->
                  << <<"group", IF Len(inner) > 0 THEN "shown" ELSE "hidden">> >>
                  \o inner \o << <<"end", "">> >>
             [] OTHER                 -> <<>>)
          \o FilteredWrittenOut(Tail(children), filterOption, text)

\* among `notes` there is a `first` and a `second`, every `first` before every
\* `second`
InOrder(notes, first, second) ==
  /\ \E i \in 1..Len(notes) : notes[i].cb = first
  /\ \E j \in 1..Len(notes) : notes[j].cb = second
  /\ \A i, j \in 1..Len(notes) :
       (notes[i].cb = first /\ notes[j].cb = second) => i < j

\* the keys of the columns from the index-th on that are options, not among
\* the defaultColumns and not in `checked`, a header giving those of the columns
\* under it
RECURSIVE UncheckedKeys(_, _, _, _)
UncheckedKeys(columns, defaultColumns, checked, index) ==
  IF index > Len(columns) THEN <<>>
  ELSE LET column == columns[index]
           listed == /\ column.colSpan # 0
                     /\ ~Includes(defaultColumns, getColumnKey(column))
                     /\ ~Includes(checked, getColumnKey(column))
       IN (IF ~listed THEN <<>>
           ELSE IF column.hasColSpan
           THEN [j \in 1..column.colSpan |->
                   Or(columns[index + j - 1].key, columns[index + j - 1].dataIndex)]
           ELSE <<getColumnKey(column)>>)
          \o UncheckedKeys(columns, defaultColumns, checked, index + 1)

----------------------------------------------------------------------------
(* Properties *)

\* C1: in single mode an option click on X leaves selectValue = <<X>> and the
\* popup closed.
C1_SingleClickReplaces ==
  (mode = "single" /\ last.op = "onOptionClick")
    => (selectValue = last.arg /\ popupVisible = FALSE)

\* C1 witness: a click replaced another, non-empty selection
C1_Witness ==
  /\ mode = "single" /\ last.op = "onOptionClick"
  /\ Len(pre) > 0 /\ pre # selectValue /\ ~popupVisible

\* C2: in multiple mode an option click on X appends X and fires onSelect(X) when
\* X's key is absent, removes the entry of X's key and fires onDeselect(X) when it
\* is present; it leaves selectValueForMultiplePanel and popupVisible as they
\* were and fires no onChange.
C2_MultipleClickToggles ==
  [][ (mode = "multiple" /\ last'.op = "onOptionClick")
        => LET X == last'.arg[1]
           IN /\ IF X.key \notin KeySet(selectValue)
                 THEN /\ selectValue' = Append(selectValue, X)
                      /\ fired' = <<onSelect(X)>>
                 ELSE /\ selectValue' = WithoutFirst(selectValue, X.key)
                      /\ fired' = <<onDeselect(X)>>
              /\ selectValueForMultiplePanel' = selectValueForMultiplePanel
              /\ popupVisible' = popupVisible
              /\ Changes(fired') = <<>> ]_stateVars

\* C2 witness: a click removed an entry that was not the last one
C2_Witness ==
  /\ mode = "multiple" /\ last.op = "onOptionClick"
  /\ Len(fired) = 1 /\ fired[1].cb = "onDeselect"
  /\ Len(pre) >= 2 /\ pre[Len(pre)].key # last.arg[1].key
  /\ popupVisible

\* C3 as claimed: confirm commits selectValue to selectValueForMultiplePanel,
\* closes the popup and fires onChange once with the value of selectValue.
C3_ConfirmFiresWholeSelection ==
  last.op = "handleConfirmSelect"
    => /\ selectValueForMultiplePanel = selectValue
       /\ popupVisible = FALSE
       /\ Len(Changes(fired)) = 1
       /\ CarriesList(Changes(fired)[1], selectValue)

\* C3 amended: confirm commits selectValue to selectValueForMultiplePanel, closes
\* the popup and fires onChange once, with the value of selectValue, or, when
\* filterInactiveOption is set, of its entries that are non-disabled options of
\* the children.
C3_ConfirmCommits ==
  last.op = "handleConfirmSelect"
    => /\ selectValueForMultiplePanel = selectValue
       /\ popupVisible = FALSE
       /\ Len(Changes(fired)) = 1
       /\ CarriesList(Changes(fired)[1],
                      IF props.config.filterInactiveOption
                      THEN LiveEntries(selectValue) ELSE selectValue)

\* C3 witness: confirm committed edits, and the value it fired left an entry out
C3_Witness ==
  /\ last.op = "handleConfirmSelect"
  /\ Len(selectValueForMultiplePanel) >= 2
  /\ Len(Changes(fired)) = 1
  /\ Len(Changes(fired)[1].val) < Len(selectValueForMultiplePanel)

\* C4: cancel sets selectValue to selectValueForMultiplePanel, leaves
\* selectValueForMultiplePanel as it was, closes the popup and fires no onChange;
\* option clicks, select-all and key presses before it leave
\* selectValueForMultiplePanel as it was.
C4_CancelRestores ==
  [][ /\ last'.op = "handleCancelSelect"
          => /\ selectValue' = selectValueForMultiplePanel
             /\ selectValueForMultiplePanel' = selectValueForMultiplePanel
             /\ popupVisible' = FALSE
             /\ Changes(fired') = <<>>
      /\ (mode = "multiple"
          /\ last'.op \in {"onOptionClick", "selectAllOption", "handleKeyboardEvent"})
          => selectValueForMultiplePanel' = selectValueForMultiplePanel ]_stateVars

\* C4 witness: cancel discarded edits
C4_Witness ==
  /\ last.op = "handleCancelSelect"
  /\ pre # selectValue /\ selectValue = selectValueForMultiplePanel
  /\ ~popupVisible

\* C5: in multiple mode, after a close reported by the trigger or caused by
\* Escape, selectValue equals selectValueForMultiplePanel.
C5_CloseIsCancel ==
  (mode = "multiple" /\ ~popupVisible
   /\ (\/ last.op = "visibleChangeFromTrigger"
       \/ (last.op = "handleKeyboardEvent" /\ last.arg = <<"ESC">>)))
    => selectValue = selectValueForMultiplePanel

\* C6: a click on the close icon of X's label removes X from selectValue and
\* from selectValueForMultiplePanel, each becoming what it was without X, and
\* fires onDeselect(X), then onChange with the resulting value.
C6_LabelCloseRemovesFromBoth ==
  [][ last'.op = "onLabelClose"
        => LET X == last'.arg[1]
           IN /\ selectValue' = WithoutFirst(selectValue, X.key)
              /\ selectValueForMultiplePanel' =
                   WithoutFirst(selectValueForMultiplePanel, X.key)
              /\ Len(fired') = 2
              /\ fired'[1] = onDeselect(X)
              /\ CarriesList(fired'[2], selectValueForMultiplePanel') ]_stateVars

\* C7: selectValue and selectValueForMultiplePanel never hold two entries with
\* the same key.
C7_NoDuplicateKeys ==
  NoDuplicateKeys(selectValue) /\ NoDuplicateKeys(selectValueForMultiplePanel)

\* C8: in single mode selectValue has at most one entry.
C8_SingleAtMostOne ==
  mode = "single" => Len(selectValue) <= 1

\* C9: activeKey is undefined or the key of an option of the filtered,
\* non-disabled list.
C9_ActiveKeyInFilteredList ==
  activeKey = Undefined \/ activeKey \in KeySet(KeyboardOptions)

\* C10 as claimed: in multiple mode two consecutive option clicks on X leave
\* selectValue exactly as it was before the first.
C10_DoubleToggleRestores ==
  [][ (mode = "multiple" /\ last'.op = "onOptionClick" /\ last'.again)
        => selectValue' = pre ]_stateVars

\* C10 amended: two consecutive option clicks on X leave selectValue exactly as it
\* was when X's key was absent before the first; when it was there once, the
\* other entries keep their order and X, as the option list describes it, comes
\* last; when it was there more than once, the first two entries with X's key
\* are gone.
C10_DoubleToggle ==
  [][ (mode = "multiple" /\ last'.op = "onOptionClick" /\ last'.again)
        => LET X == last'.arg[1]
               n == Occurrences(pre, X.key)
           IN selectValue' =
                CASE n = 0 -> pre
                  [] n = 1 -> Append(WithoutFirst(pre, X.key), X)
                  [] OTHER -> WithoutFirst(WithoutFirst(pre, X.key), X.key) ]_stateVars

\* C10 witness: the second of two consecutive clicks on X put X back, behind
\* another entry: X was selected once before the first click
C10_Witness ==
  /\ mode = "multiple" /\ last.op = "onOptionClick" /\ last.again
  /\ Len(fired) = 1 /\ fired[1].cb = "onSelect"
  /\ Len(selectValue) >= 2
  /\ selectValue[Len(selectValue)] = last.arg[1]

\* C11: select-all leaves selectValue empty when the key of every non-disabled
\* option was in selectValue, and otherwise leaves it exactly the sequence of the
\* non-disabled options, whatever was selected before.
C11_SelectAllToggles ==
  last.op = "selectAllOption"
    => selectValue = IF KeySet(EnabledOptions) \subseteq KeySet(pre)
                     THEN <<>> ELSE EnabledOptions

\* C11 witness: select-all dropped a selected entry that is no non-disabled option
C11_Witness ==
  /\ last.op = "selectAllOption"
  /\ \E i \in 1..Len(pre) : pre[i].key \notin KeySet(EnabledOptions)
  /\ Len(selectValue) > 0 /\ selectValue = EnabledOptions

\* C12: clear leaves selectValue empty and the popup closed and fires onChange
\* exactly once, with no argument.
C12_ClearEmpties ==
  last.op = "emptySelectValue"
    => /\ selectValue = <<>>
       /\ popupVisible = FALSE
       /\ Changes(fired) = <<onChangeNone>>

\* C12 witness: clear emptied a selection that was not empty
C12_Witness ==
  /\ last.op = "emptySelectValue" /\ mode = "single"
  /\ Len(pre) > 0 /\ selectValue = <<>> /\ ~popupVisible

\* C13: with n > 0 shown non-disabled options and activeKey the i-th of them,
\* ArrowDown makes activeKey the ((i+1) mod n)-th and ArrowUp the ((i-1) mod n)-th;
\* with activeKey undefined either arrow makes it the first.
C13_ArrowsWrap ==
  [][ (IsArrow(last') /\ Len(ShownOptions) > 0)
        => LET n == Len(ShownOptions)
               step == IF last'.arg[1] = "DOWN" THEN 1 ELSE n - 1
           IN IF activeKey = Undefined
              THEN activeKey' = ShownOptions[1].key
              ELSE activeKey \in KeySet(ShownOptions)
                     => activeKey' =
                          ShownOptions[((ShownIndex(activeKey) + step) % n) + 1].key ]_stateVars

\* C13 witness: the second of two ArrowUp presses went from the first of three
\* options to the last
C13_Witness ==
  /\ IsKey(last, "UP") /\ last.again
  /\ Len(ShownOptions) >= 3
  /\ activeKey = ShownOptions[Len(ShownOptions)].key

\* C14: after an ArrowUp or ArrowDown press activeKey is not the key of a
\* disabled option nor of an option the search leaves out.
C14_ArrowsAvoidDisabledAndFiltered ==
  IsArrow(last) => (activeKey = Undefined \/ activeKey \in KeySet(ShownOptions))

\* C15: Enter with activeKey the key of a shown non-disabled option: when no entry
\* of selectValue has that key, single mode leaves selectValue that one option,
\* closes the popup and fires onChange with it, multiple mode appends the option,
\* fires nothing and leaves the popup as it was; when an entry has that key,
\* nothing changes and nothing is fired.
C15_EnterSelectsActive ==
  [][ (IsKey(last', "ENTER") /\ activeKey \in KeySet(ShownOptions))
        => LET option == ShownOptions[ShownIndex(activeKey) + 1]
           IN IF activeKey \notin KeySet(selectValue)
              THEN IF mode = "single"
                   THEN /\ selectValue' = <<option>>
                        /\ popupVisible' = FALSE
                        /\ Changes(fired') = <<onChangeOne(option, labelInValue)>>
                   ELSE /\ selectValue' = Append(selectValue, option)
                        /\ popupVisible' = popupVisible
                        /\ fired' = <<>>
              ELSE /\ UNCHANGED <<selectValue, selectValueForMultiplePanel, popupVisible,
                                  activeKey, searchValue>>
                   /\ fired' = <<>> ]_stateVars

\* C15 witness: Enter in multiple mode appended the active option behind another
\* entry, silently, the popup open
C15_Witness ==
  /\ IsKey(last, "ENTER") /\ mode = "multiple"
  /\ Len(pre) >= 1 /\ selectValue # pre /\ SubSeq(selectValue, 1, Len(pre)) = pre
  /\ selectValue[Len(selectValue)].key = activeKey
  /\ fired = <<>> /\ popupVisible

\* C16: with no shown non-disabled option, Enter, ArrowUp and ArrowDown leave
\* selectValue, selectValueForMultiplePanel, activeKey and popupVisible as they
\* were and fire nothing.
C16_EmptyListNoOp ==
  [][ (last'.op = "handleKeyboardEvent" /\ last'.arg[1] \in {"ENTER", "UP", "DOWN"}
       /\ Len(ShownOptions) = 0)
        => /\ UNCHANGED <<selectValue, selectValueForMultiplePanel, activeKey, popupVisible>>
           /\ fired' = <<>> ]_stateVars

\* C16 witness: an arrow was pressed over an empty list, an activeKey being set
C16_Witness ==
  /\ IsArrow(last) /\ Len(ShownOptions) = 0
  /\ activeKey # Undefined /\ popupVisible /\ fired = <<>>

\* C17: Escape closes the popup when esc is set; when it is not, Escape changes
\* nothing and fires nothing.
C17_Escape ==
  [][ IsKey(last', "ESC")
        => IF props.config.esc
           THEN popupVisible' = FALSE
           ELSE /\ UNCHANGED <<selectValue, selectValueForMultiplePanel, popupVisible,
                               activeKey, searchValue>>
                /\ fired' = <<>> ]_stateVars

\* C17 witness: Escape closed the popup
C17_Witness ==
  /\ IsKey(last, "ESC") /\ props.config.esc
  /\ ~popupVisible /\ Len(VisibleChanges(fired)) = 1

\* C18: when the trigger opens the popup, activeKey becomes the key of the
\* selected option in single mode with a selection; otherwise, with
\* defaultActiveFirstOption, the key of the first non-disabled option, or
\* undefined when there is none; otherwise it stays as it was.
C18_OpenSetsActiveKey ==
  [][ (last'.op = "visibleChangeFromTrigger" /\ last'.arg[1])
        => activeKey' =
             IF mode = "single" /\ Len(selectValue) > 0
             THEN selectValue[1].key
             ELSE IF props.config.defaultActiveFirstOption
             THEN (IF Len(EnabledOptions) > 0 THEN EnabledOptions[1].key ELSE Undefined)
             ELSE activeKey ]_stateVars

\* C18 witness: the popup was opened with defaultActiveFirstOption set and a
\* selected option that is not the first one: the selected one is active
C18_Witness ==
  /\ last.op = "visibleChangeFromTrigger" /\ last.arg[1]
  /\ mode = "single" /\ props.config.defaultActiveFirstOption
  /\ Len(selectValue) > 0 /\ Len(EnabledOptions) > 0
  /\ selectValue[1].key # EnabledOptions[1].key
  /\ activeKey = selectValue[1].key

\* C19: whenever the popup is closed, activeKey is undefined.
C19_ClosedHasNoActiveKey ==
  ~popupVisible => activeKey = Undefined

\* C20: a handler that changes popupVisible fires onVisibleChange once, with the
\* new popupVisible; a render with other props fires no onVisibleChange, whether
\* popupVisible changes or not.
C20_VisibleChangeNotified ==
  [][ IF last'.op = "getDerivedStateFromProps"
      THEN VisibleChanges(fired') = <<>>
      ELSE popupVisible' # popupVisible
             => /\ Len(VisibleChanges(fired')) = 1
                /\ VisibleChanges(fired')[1].val = <<popupVisible'>> ]_stateVars

\* C20 witness: the visible prop closed the popup (activeKey, which every handler
\* that closes it clears, is still set) and the last render fired nothing
C20_Witness ==
  /\ last.op = "getDerivedStateFromProps"
  /\ ~popupVisible /\ activeKey # Undefined /\ fired = <<>>

\* C21: an onChange fired by an option click, Enter, a label's close icon or
\* confirm carries keys without labelInValue and {key, label, title} objects with
\* it, one of them in single mode and a sequence of them in multiple mode.
C21_ChangeShape ==
  last.op \in {"onOptionClick", "onLabelClose", "handleConfirmSelect", "handleKeyboardEvent"}
    => \A i \in 1..Len(Changes(fired)) :
         LET note == Changes(fired)[i]
         IN IF mode = "single"
            THEN IF labelInValue
                 THEN note.kind = "object" /\ note.val = selectValue
                 ELSE note.kind = "key" /\ note.val = KeysOf(selectValue)
            ELSE IF labelInValue
                 THEN note.kind = "objects"
                      /\ \A j \in 1..Len(note.val) : note.val[j].key \in KeySet(selectValue)
                 ELSE note.kind = "keys"
                      /\ \A j \in 1..Len(note.val) : note.val[j] \in KeySet(selectValue)

\* C21 witness: Enter in single mode with labelInValue fired onChange with the
\* option as an object
C21_Witness ==
  /\ IsKey(last, "ENTER") /\ mode = "single" /\ labelInValue
  /\ Len(Changes(fired)) = 1 /\ Changes(fired)[1].kind = "object"
  /\ Changes(fired)[1].val[1].label # Changes(fired)[1].val[1].key

\* C22: in multiple mode with the popup open, confirm can be taken exactly when
\* neither maxCount is among the props with selectValue longer than it, nor
\* required is set with selectValue empty.
C22_ConfirmDisabledExactly ==
  (Mounted /\ popupVisible /\ mode = "multiple")
    => ((ENABLED Confirm)
          <=> ~(\/ (props.config.hasMaxCount /\ Len(selectValue) > props.config.maxCount)
                \/ (props.config.required /\ Len(selectValue) = 0)))

\* C22 witness: an option click took an entry back out of a selection longer
\* than maxCount, and confirm can be taken again
C22_Witness ==
  /\ mode = "multiple" /\ props.config.hasMaxCount
  /\ last.op = "onOptionClick" /\ fired[1].cb = "onDeselect"
  /\ Len(pre) > props.config.maxCount /\ Len(selectValue) = props.config.maxCount
  /\ NoDuplicateKeys(pre)
  /\ ENABLED Confirm

\* C23: normalizing the value prop never throws, whatever its shape and
\* whatever labelInValue is.
C23_NormalizationNeverThrows ==
  ~thrown

\* C24: in single mode an option click on X fires onChange, with X or its key,
\* exactly when no entry of selectValue had X's key.
C24_SingleClickChangesIffNew ==
  [][ (mode = "single" /\ last'.op = "onOptionClick")
        => LET X == last'.arg[1]
           IN Changes(fired') =
                IF X.key \in KeySet(selectValue)
                THEN <<>>
                ELSE IF labelInValue
                THEN <<Note("onChange", "object", <<X>>)>>
                ELSE <<Note("onChange", "key", <<X.key>>)>> ]_stateVars

\* C24 witness: the selected option was clicked again: the popup closed and no
\* onChange was fired
C24_Witness ==
  /\ mode = "single" /\ last.op = "onOptionClick"
  /\ pre = last.arg /\ selectValue = pre
  /\ Changes(fired) = <<>> /\ ~popupVisible

\* C25: the onChange of confirm carries, with filterInactiveOption, exactly the
\* entries selectValue had whose key is the key of a non-disabled option of the
\* children, in their order, and without it all of them.
C25_ConfirmValueFiltered ==
  last.op = "handleConfirmSelect"
    => \E i \in 1..Len(fired) :
         CarriesList(fired[i], IF props.config.filterInactiveOption
                               THEN SelectSeq(pre, LAMBDA e : e.key \in KeySet(EnabledOptions))
                               ELSE pre)

\* C25 witness: confirm with filterInactiveOption left a first entry out and
\* handed the entry behind it over
C25_Witness ==
  /\ last.op = "handleConfirmSelect" /\ props.config.filterInactiveOption
  /\ Len(pre) = 2 /\ Len(Changes(fired)) = 1
  /\ Len(Changes(fired)[1].val) = 1
  /\ pre[1].key \notin KeySet(EnabledOptions)
  /\ pre[2].key \in KeySet(EnabledOptions)

\* C26: getOptionFromChildren returns the {label, key, title} of exactly the
\* Option children the predicate accepts, all of them without a predicate, those
\* inside groups included, in the order of the tree.
C26_OptionResolution ==
  call.fn = "getOptionFromChildren"
    => LET leaves == OptionLeaves(TreeOf(call.children))
           accepted == SelectSeq(leaves, LAMBDA c : call.filter = "none" \/ ~c.disabled)
       IN result = [i \in 1..Len(accepted) |->
                      [key |-> accepted[i].value, label |-> accepted[i].children[1],
                       title |-> accepted[i].title]]

\* C26 witness: a tree with a group inside a group, of which the predicate left
\* an option out and kept options before and behind it
C26_Witness ==
  /\ call.fn = "getOptionFromChildren" /\ call.filter = "notDisabled"
  /\ call.children = <<6, 7, 1>>
  /\ KeysOf(result) = <<"e", "f", "g", "a">>

\* C27: getFilteredChildren keeps every group in its place, with the children
\* the filter leaves of it, marked hidden exactly when none is left, and keeps an
\* Option exactly when filterOption, as a function of the search text or as a
\* boolean, accepts it.
C27_FilteredChildren ==
  call.fn = "getFilteredChildren"
    => WrittenOut(result) = FilteredWrittenOut(TreeOf(call.children), call.filter, call.text)

\* C27 witness: the search left one group with its option and emptied, and hid,
\* the group behind it
C27_Witness ==
  /\ call.fn = "getFilteredChildren" /\ call.filter = "function" /\ call.text = "c"
  /\ call.children = <<1, 5, 6>>
  /\ WrittenOut(result) = << <<"group", "shown">>, <<"option", "c">>, <<"end", "">>,
                             <<"group", "hidden">>, <<"end", "">> >>

\* C28: selectValue is in the order of the interactions, not of the options: in
\* multiple mode a click or an Enter that adds an entry leaves the entries there
\* were, in the order they had, and the new entry behind them.
C28_InteractionOrder ==
  (/\ mode = "multiple"
   /\ last.op = "onOptionClick" \/ IsKey(last, "ENTER")
   /\ Len(selectValue) > Len(pre))
    => /\ selectValue = Append(pre, selectValue[Len(selectValue)])
       /\ selectValue[Len(selectValue)].key =
            IF last.op = "onOptionClick" THEN last.arg[1].key ELSE activeKey

\* C28 witness: a click added the first option of the tree behind the entry of
\* the second
C28_Witness ==
  /\ mode = "multiple" /\ last.op = "onOptionClick" /\ props.children = "cat1"
  /\ Len(selectValue) = Len(pre) + 1 /\ Len(pre) >= 1
  /\ KeysOf(EnabledOptions) = <<"a", "b">>
  /\ pre[Len(pre)].key = "b" /\ selectValue[Len(selectValue)].key = "a"

\* C29: in multiple mode with required set, no handler of a user interaction
\* empties selectValueForMultiplePanel, and no onChange carries an empty list.
C29_RequiredNeverCommitsEmpty ==
  [][ (/\ mode = "multiple" /\ props.config.required
       /\ last'.op \notin {"constructor", "getDerivedStateFromProps"})
        => /\ Len(selectValueForMultiplePanel) > 0 => Len(selectValueForMultiplePanel') > 0
           /\ \A i \in 1..Len(fired') :
                (fired'[i].cb = "onChange" /\ fired'[i].kind \in {"keys", "objects"})
                  => Len(fired'[i].val) > 0 ]_stateVars

\* C30: the delayed focus callback, whenever it runs between the handlers,
\* leaves selectValue, selectValueForMultiplePanel, activeKey, popupVisible and
\* searchValue as they are; and while loading is set no handler schedules it.
C30_FocusCallbackInert ==
  [][ /\ (focusPending /\ ~focusPending')
           => UNCHANGED <<selectValue, selectValueForMultiplePanel, activeKey,
                          popupVisible, searchValue>>
      /\ props.config.loading => (focusPending' => focusPending) ]_vars

\* C30 witness: the popup was opened and the list confirmed, which closed it
\* and fired onChange, while the callback of the opening was still to run
C30_Witness ==
  /\ focusPending /\ ~props.config.loading
  /\ last.op = "handleConfirmSelect" /\ ~popupVisible
  /\ Len(selectValueForMultiplePanel) > 0 /\ Len(Changes(fired)) = 1

\* C31: a render with other props, when the value prop is there and normalizes
\* to something else than the value of the props before, makes selectValue the
\* normalized value, and selectValueForMultiplePanel too in multiple mode only;
\* otherwise it leaves both as they were.
C31_PropsUpdateReplacesOnChange ==
  [][ (last'.op = "getDerivedStateFromProps" /\ ~thrown')
        => LET changedValue == getValueFromProps(props'.value, props'.config.labelInValue,
                                                 ChildrenOf(props'.children))
               prevValue == getValueFromProps(props.value, props.config.labelInValue,
                                              ChildrenOf(props.children))
           IN IF props'.value.type # "absent" /\ changedValue # prevValue
              THEN /\ selectValue' = changedValue
                   /\ selectValueForMultiplePanel' =
                        IF mode = "multiple" THEN changedValue
                        ELSE selectValueForMultiplePanel
              ELSE UNCHANGED <<selectValue, selectValueForMultiplePanel>> ]_stateVars

\* C31 witness: a render with the same value left the options clicked since the
\* popup opened, which are not those of the value prop, where they were
C31_Witness ==
  /\ last.op = "getDerivedStateFromProps" /\ ~thrown /\ mode = "multiple"
  /\ props.value.type = "array"
  /\ selectValue = pre /\ selectValue # selectValueForMultiplePanel
  /\ selectValueForMultiplePanel =
       getValueFromProps(props.value, labelInValue, ChildrenOf(props.children))

\* C32: the click on a label's close icon fires onDeselect before onChange;
\* confirm fires onVisibleChange(false) before onChange; an option click in
\* single mode fires onVisibleChange(false), and before onChange when it fires
\* one.
C32_NotificationOrder ==
  /\ last.op = "onLabelClose" => InOrder(fired, "onDeselect", "onChange")
  /\ last.op = "handleConfirmSelect"
       => /\ InOrder(fired, "onVisibleChange", "onChange")
          /\ VisibleChanges(fired) = <<onVisibleChange(FALSE)>>
  /\ (last.op = "onOptionClick" /\ mode = "single")
       => /\ VisibleChanges(fired) = <<onVisibleChange(FALSE)>>
          /\ Len(Changes(fired)) > 0 => InOrder(fired, "onVisibleChange", "onChange")

\* C32 witness: confirm reported the closing, then a list of two
C32_Witness ==
  /\ last.op = "handleConfirmSelect"
  /\ Len(fired) = 2 /\ fired[1] = onVisibleChange(FALSE)
  /\ fired[2].cb = "onChange" /\ Len(fired[2].val) = 2

\* C33: select-all and a change of the search text leave
\* selectValueForMultiplePanel and popupVisible as they were and fire no
\* onChange, onSelect or onDeselect; a change of the search text also leaves
\* selectValue as it was and fires onSearch, once, with the new text.
C33_SelectAllAndSearchFrame ==
  [][ /\ last'.op \in {"selectAllOption", "updateSearchValue", "emptySearchValue"}
           => /\ UNCHANGED <<selectValueForMultiplePanel, popupVisible>>
              /\ \A i \in 1..Len(fired') :
                   fired'[i].cb \notin {"onChange", "onSelect", "onDeselect"}
      /\ last'.op \in {"updateSearchValue", "emptySearchValue"}
           => /\ UNCHANGED selectValue
              /\ fired' = <<onSearch(searchValue')>>
              /\ searchValue' = IF last'.op = "updateSearchValue" THEN last'.arg[1] ELSE ""
    ]_stateVars

\* C33 witness: a text was typed over another one, a selection being there and
\* the popup open
C33_Witness ==
  /\ last.op = "updateSearchValue" /\ last.arg = <<"b">>
  /\ searchValue = "b" /\ fired = <<onSearch("b")>>
  /\ popupVisible /\ Len(selectValue) > 0 /\ selectValue = pre

\* C34: whenever the modal is not visible, checkedOption is checkedOptionConfirm;
\* OK makes checkedOptionConfirm the checkedOption there was and closes; Cancel
\* makes checkedOption the checkedOptionConfirm there was and closes; a click on
\* a box leaves checkedOptionConfirm as it was.
C34_ModalCommitsOnOk ==
  /\ [](~modal.visible => modal.checkedOption = modal.checkedOptionConfirm)
  /\ [][ /\ last'.op = "handleOk"
              => /\ ~modal'.visible
                 /\ modal'.checkedOptionConfirm = modal.checkedOption
                 /\ modal'.checkedOption = modal.checkedOption
         /\ last'.op = "handleCancel"
              => /\ ~modal'.visible
                 /\ modal'.checkedOption = modal.checkedOptionConfirm
                 /\ modal'.checkedOptionConfirm = modal.checkedOptionConfirm
         /\ last'.op = "onChange"
              => /\ modal'.checkedOptionConfirm = modal.checkedOptionConfirm
                 /\ modal'.visible ]_vars

\* C34 witness: Cancel put back a column whose box had been cleared
C34_Witness ==
  /\ last.op = "handleCancel" /\ ~modal.visible
  /\ Len(pre) < Len(modal.checkedOption)
  /\ modal.checkedOption = modal.checkedOptionConfirm

\* C35: when the constructor starts with a column that is not fixed among the
\* checked ones, there is one in every state; and when there is exactly one,
\* the box of every checked option is disabled.
C35_KeepsOneNotFixed ==
  LET columns == ColumnsOf(props.columns)
      checked == CheckedNotFixed(columns, modal.checkedOption)
  IN Len(CheckedNotFixed(columns, InitialOption(columns, props.hideColumns))) >= 1
       => /\ Len(checked) >= 1
          /\ Len(checked) = 1
               => \A i \in 1..Len(getOptions(modal.checkedOption)) :
                    LET option == getOptions(modal.checkedOption)[i]
                    IN Includes(modal.checkedOption, option.value) => option.disabled

\* C35 witness: a box was cleared and one column that is not fixed is left, in a
\* table that started with more
C35_Witness ==
  /\ last.op = "onChange" /\ modal.visible
  /\ Len(pre) > Len(modal.checkedOption)
  /\ Len(CheckedNotFixed(ColumnsOf(props.columns), modal.checkedOption)) = 1
  /\ Len(CheckedNotFixed(ColumnsOf(props.columns), modal.checkedOptionConfirm)) > 1

\* C36: OK fires onChange once, with the keys of the options that are not in
\* the checkedOptionConfirm it leaves, in the order of the columns, a header
\* giving the keys of the columns under it; no checked option is in the list.
C36_OkReportsHidden ==
  last.op = "handleOk"
    => /\ fired = << Note("onChange", "keys",
                          UncheckedKeys(ColumnsOf(props.columns), props.defaultColumns,
                                        modal.checkedOptionConfirm, 1)) >>
       /\ \A i \in 1..Len(modal.checkedOptionConfirm) :
            ~Includes(fired[1].val, modal.checkedOptionConfirm[i])

\* C36 witness: OK after the boxes of a header over two columns and of a plain
\* column were cleared
C36_Witness ==
  /\ last.op = "handleOk" /\ props.columns = "merged"
  /\ modal.checkedOptionConfirm = <<"a">>
  /\ fired = << Note("onChange", "keys", <<"k1", "k2", "b">>) >>

\* C37: a play or pause request to a disabled player leaves isPlay as it was and
\* calls nothing of the audio element; to a player that is not disabled, play
\* calls play() and makes isPlay true, pause calls pause() and makes it false;
\* and a change or a reading of the current time that finds it at the duration
\* makes isPlay false.
C37_DisabledPlayerIgnores ==
  [][ /\ (last'.op = "controlAudio" /\ last'.arg[1] \in {"play", "pause"})
           => IF player.disabled
              THEN /\ player'.isPlay = player.isPlay
                   /\ audio'.called = <<>>
                   /\ audio'.paused = audio.paused
                   /\ audio'.currentTime = audio.currentTime
              ELSE /\ player'.isPlay = IF last'.arg[1] = "play" THEN True ELSE False
                   /\ audio'.called = last'.arg
                   /\ audio'.paused = (last'.arg[1] = "pause")
      /\ (/\ last'.op = "controlAudio"
          /\ last'.arg[1] \in {"changeCurrentTime", "getCurrentTime"}
          /\ audio'.currentTime = audio'.duration)
           => player'.isPlay = False ]_vars

\* C37 witness: the media turned out to last half a second while the player
\* was playing, and the click on pause that followed did nothing
C37_Witness ==
  /\ last.op = "controlAudio" /\ last.arg = <<"pause">>
  /\ player.disabled /\ props.src # "" /\ ParseInt(audio.duration) = 0
  /\ player.isPlay = True /\ audio.called = <<>>

====
